---- MODULE Spec2Model ----
(***************************************************************************)
(* BatchProcessor (src/app/ui/components/batch_processor.py): the batch    *)
(* cell-processing pipeline.  Three execution contexts take part:          *)
(*   - the Tk main thread, which calls process_batches / cancel_processing *)
(*   - the asyncio event-loop thread, which runs _process_batches_async;   *)
(*     its ready queue (call_soon / call_soon_threadsafe) is FIFO          *)
(*   - the default executor, which runs api_manager.process_single_cell    *)
(* A coroutine runs without interruption by other loop callbacks between   *)
(* two awaits, but the Tk thread may write processing_cancelled at any     *)
(* time, so every read of that flag is a step of its own.                  *)
(* Reports reach the Tk thread through root.after; in Spec and SpecOverlap  *)
(* the Tk root is alive throughout, SpecTeardown lets it be destroyed.     *)
(* SpecLive is Spec with a loop that keeps running, calls that return and   *)
(* sleeps that come due.                                                   *)
(* The cell processor of SpecGemini is GeminiAPIManager.process_single_cell *)
(* (src/app/services/gemini_api_manager.py) with its rate limiter;         *)
(* SpecGeminiSequential makes one call at a time, and SpecGeminiRun is a   *)
(* run of the batch processor with that manager as its api_manager.        *)
(* SpecAppConfig is AppConfig (src/app/config.py): prompt templates,       *)
(* recent files and restore_defaults.                                      *)
(***************************************************************************)
EXTENDS Integers, Sequences, FiniteSets, TLC

\* Bounds of the model.
MaxCells == 3
MaxBatch == 3
\* The longest cell list of two overlapping followed runs.
MaxOverlapCells == 2
\* The longest cell list of a run whose processor is the Gemini manager.
MaxLimitedCells == 2
\* The runs of one BatchProcessor that are followed step by step.  Spec follows
\* run 1; further process_batches calls act on the instance (the flag, the handle)
\* through process_batches_other.
Runs == {1, 2}
\* self.current_task: None, a followed run's future, or the future of another run.
NoTask == 0
OtherTask == 3
\* The executor threads that may be inside process_single_cell at once.
Threads == {1, 2}
\* The rate limiter's window, in seconds.
Window == 60
\* Bounds of the cell processor's model: the largest max_requests_per_minute, the
\* time the clock runs to, the steps in which it advances, and the most
\* generate_content calls followed in one window.
MaxRequests == 2
MaxSent == 4
\* 'max_recent_files' of the default configuration.
MaxRecentFiles == 10
\* The template names the prompt methods are called with (two default names and a
\* new one), the text they are given, and the files opened.
EditNames == {"Capitalize", "Extract Initials", "My Template"}
EditTexts == {"custom text"}
Files == {"a.xlsx", "b.xlsx"}
MaxTime == 122
TimeSteps == {30, 31}

VARIABLES
    cells,                \* the cell list handed to process_batches
    batch_size,           \* the batch_size argument
    processing_cancelled, \* self.processing_cancelled
    current_task,         \* self.current_task: NoTask, or the run whose future it holds
    taskFuture,           \* per run: state of the concurrent future of the run
    ready,                \* the event loop's FIFO ready queue
    pc,                   \* per run: where its coroutine stands
    batch_idx,            \* per run: batch_idx of the enumerate (0-based)
    cell_idx,             \* per run: cell_idx of the enumerate (0-based)
    processed,            \* per run: local processed
    success_count,        \* per run: local success_count
    error_count,          \* per run: local error_count
    batch_results,        \* per run: local batch_results
    all_results,          \* per run: local all_results
    progress,             \* per run: the progress events handed to root.after, latest last
    completion,           \* per run: the completion events handed to root.after
    calls,                \* per run: cells handed to the executor, in order
    cancelCalled,         \* per run: cancel_processing was called on its handle in flight
    cancelQueued,         \* per run: ... and that while the run had not started
    callsAtCancel,        \* per run: how many cells had gone to the executor by then
    observed,             \* per run: "no", or how the run first met the cancellation
    procAtObs,            \* per run: processed when it first met the cancellation
    handed,               \* per run: the root.after calls made, in order, by kind
    root_alive,           \* the Tk root exists (root.after can schedule)
    client,               \* GeminiAPIManager.client is set
    request_count,        \* GeminiAPIManager.request_count
    request_start_time,   \* GeminiAPIManager.request_start_time, in seconds
    max_requests_per_minute, \* GeminiAPIManager.max_requests_per_minute
    now,                  \* time.time(), in seconds
    call_pc,              \* per executor thread: where its process_single_cell stands
    response,             \* per executor thread: what generate_content gave
    returned,             \* per executor thread: what its last call returned
    sent,                 \* generate_content calls since request_start_time was set
    cancelInFlight,       \* per run: cancel_processing was called while it was in flight
    callsAtAnyCancel,     \* per run: how many cells had gone to the executor by then
    prompts,              \* AppConfig._config['prompts']
    recent_files,         \* AppConfig._config['recent_files']
    last_op,              \* the AppConfig method called last, and its argument
    config_file           \* what save() last wrote to the configuration file

vars == <<cells, batch_size, processing_cancelled, current_task, taskFuture, ready,
          pc, batch_idx, cell_idx, processed, success_count, error_count,
          batch_results, all_results, progress, completion, handed, calls,
          cancelCalled, cancelQueued, callsAtCancel, observed, procAtObs,
          root_alive, client, request_count, request_start_time,
          max_requests_per_minute, now, call_pc, response, returned, sent,
          cancelInFlight, callsAtAnyCancel, prompts, recent_files, last_op,
          config_file>>

runLocals == <<batch_idx, cell_idx, processed, success_count, error_count,
               batch_results, all_results>>
ghosts == <<cancelCalled, cancelQueued, callsAtCancel, observed, procAtObs,
            cancelInFlight, callsAtAnyCancel>>
inputs == <<cells, batch_size>>
handle == <<processing_cancelled, current_task, taskFuture>>
gemini == <<client, request_count, request_start_time, max_requests_per_minute, now,
            call_pc, response, returned, sent>>
config == <<prompts, recent_files, last_op, config_file>>
batchProcessor == <<inputs, handle, ready, pc, runLocals, progress, completion, handed,
                    calls, ghosts, root_alive>>

Min(a, b) == IF a < b THEN a ELSE b

\* A cell dictionary {'row', 'col', 'content'}; row and col identify it.
Cell(i) == [row |-> i, col |-> MaxCells + 1 - i]

CellLists == {[i \in 1..n |-> Cell(i)] : n \in 0..MaxCells}

\* Python's cs[i:j] for 0 <= i <= j.
Slice(cs, i, j) == SubSeq(cs, i + 1, Min(j, Len(cs)))

\* Python's range(0, n, b) for b >= 1.
Range(n, b) == {i \in 0..(n - 1) : i % b = 0}

BatchesOffByOne(cs, b) ==
    [k \in 1..Cardinality(Range(Len(cs), b)) |-> Slice(cs, (k - 1) * b, (k - 1) * b + b - 1)]

\* batches = [cells[i:i + batch_size] for i in range(0, len(cells), batch_size)]
Batches(cs, b) ==
    [k \in 1..Cardinality(Range(Len(cs), b)) |-> Slice(cs, (k - 1) * b, (k - 1) * b + b)]

batches == Batches(cells, batch_size)

\* The batch and the cell a run stands at.
Batch(r) == batches[batch_idx[r] + 1]
CurCell(r) == Batch(r)[cell_idx[r] + 1]

\* Where a coroutine is suspended at an await and where it is running.
Awaits == {"awaitCell", "sleepCell", "sleepBatch"}
Running == {"batchCheck", "cellCheck", "dispatch", "final"}
InFlight == {"queued"} \cup Awaits \cup Running

\* The loop thread runs one callback at a time.
LoopFree == \A r \in Runs : pc[r] \notin Running

Entry(kind, r) == [kind |-> kind, run |-> r]
HasWake(r) == \E i \in 1..Len(ready) : ready[i] = Entry("wake", r)
DropWake(q, r) == SelectSeq(q, LAMBDA e : e # Entry("wake", r))

None == "None"

\* cell_result = {'row': ..., 'col': ..., 'success': ..., 'result': ..., 'error': ...}
\* for the processor's return (success, result, error).
CellResult(cell, res) ==
    [row |-> cell.row, col |-> cell.col, success |-> (res = "ok"),
     result |-> IF res = "ok" THEN "text" ELSE None,
     error |-> IF res = "ok" THEN None ELSE "error text"]

\* The arguments root.after's lambda passes to the progress callback.
ProgressEvent(r, status) ==
    [processed |-> processed[r], success_count |-> success_count[r],
     error_count |-> error_count[r], total |-> Len(cells), status |-> status]

\* The arguments root.after's lambda passes to the completion callback.
CompletionEvent(r) ==
    [results |-> all_results[r], success_count |-> success_count[r],
     error_count |-> error_count[r]]

\* _update_progress, with the locals as they stand.
UpdateProgress(r, status) ==
    progress' = [progress EXCEPT ![r] = Append(@, ProgressEvent(r, status))]

\* _call_completion, with the locals as they stand.
CallCompletion(r) ==
    completion' = [completion EXCEPT ![r] = Append(@, CompletionEvent(r))]

\* self.root.after(0, ...) for each report of a step, in the order of the calls.
RootAfter(r, kinds) ==
    /\ root_alive
    /\ handed' = [handed EXCEPT ![r] = @ \o kinds]

\* The task is over: its concurrent future, unless cancelled, gets the result.
TaskEnds(r) ==
    /\ pc' = [pc EXCEPT ![r] = "done"]
    /\ taskFuture' = [taskFuture EXCEPT ![r] = IF @ = "pending" THEN "finished" ELSE @]

\* 'prompts' of the default configuration that AppConfig.__init__ builds.
InitPrompts ==
    "Capitalize" :>
        "Capitalize all text in this cell." @@
    "To Uppercase" :>
        "Convert all text to uppercase." @@
    "To Lowercase" :>
        "Convert all text to lowercase." @@
    "Sentence Case" :>
        "Format the text in sentence case (capitalize first letter of each sentence)." @@
    "Title Case" :>
        "Format the text in title case (capitalize first letter of each word, except for articles, prepositions, and conjunctions)." @@
    "Remove Extra Spaces" :>
        "Remove all extra whitespace, including double spaces and leading/trailing spaces." @@
    "Format Date" :>
        "Format this as a standard date (YYYY-MM-DD)." @@
    "Format Phone Number" :>
        "Format this as a standard phone number." @@
    "Format Currency" :>
        "Format this as a standard currency value." @@
    "Format Percentage" :>
        "Format this as a percentage." @@
    "Extract Numbers" :>
        "Extract all numbers from this text." @@
    "Format Address" :>
        "Format this as a properly structured address with standard capitalization." @@
    "Format Email" :>
        "Format this as a proper email address (lowercase, no extra spaces)." @@
    "Summarize" :>
        "Summarize this text in one sentence." @@
    "Expand" :>
        "Expand this abbreviated or short text with more details while maintaining its meaning." @@
    "Bullet Points" :>
        "Convert this text into a bulleted list of key points." @@
    "Fix Grammar" :>
        "Fix any grammar or spelling errors in this text." @@
    "Simplify" :>
        "Simplify this text to make it easier to understand while preserving the key information." @@
    "Formalize" :>
        "Rewrite this text in a more formal, professional tone." @@
    "Casualize" :>
        "Rewrite this text in a more casual, conversational tone." @@
    "Format JSON" :>
        "Format this as valid, properly indented JSON." @@
    "Format XML" :>
        "Format this as valid, properly indented XML." @@
    "Format CSV" :>
        "Format this as valid CSV with proper delimiters and escaping." @@
    "HTML to Text" :>
        "Convert this HTML to well-structured plain text, preserving the semantic structure." @@
    "Markdown to Text" :>
        "Convert this Markdown to plain text while preserving the content structure." @@
    "Clean Code" :>
        "Clean up and format this code snippet with proper indentation and style." @@
    "Translate to English" :>
        "Translate this text to English." @@
    "Translate to Arabic" :>
        "Translate this text to Arabic." @@
    "Translate to Hebrew" :>
        "Translate this text to Hebrew." @@
    "Remove Duplicates" :>
        "Remove any duplicate information from this text." @@
    "Remove HTML Tags" :>
        "Remove all HTML tags from this text, keeping only the content." @@
    "Fix Encoding Issues" :>
        "Fix text encoding issues like garbled characters or HTML entities." @@
    "Fill Blank" :>
        "Complete the blank or missing information in this cell based on context from surrounding cells." @@
    "Standardize Format" :>
        "Standardize the format of this data according to conventions." @@
    "Extract Dates" :>
        "Extract all dates from this text and format them consistently." @@
    "Split Name" :>
        "Split this full name into separate first name and last name components." @@
    "Format Name" :>
        "Format this name with proper capitalization and spacing." @@
    "Extract Initials" :>
        "Extract the initials from this name." @@
    "Convert to Citation" :>
        "Convert this reference information to a proper citation format."

\* default_prompts of restore_defaults.
RestoredPrompts ==
    "Capitalize" :>
        "Capitalize all text in this cell." @@
    "To Uppercase" :>
        "Convert all text to uppercase." @@
    "To Lowercase" :>
        "Convert all text to lowercase." @@
    "Sentence Case" :>
        "Format the text in sentence case (capitalize first letter of each sentence)." @@
    "Title Case" :>
        "Format the text in title case (capitalize first letter of each word, except for articles, prepositions, and conjunctions)." @@
    "Remove Extra Spaces" :>
        "Remove all extra whitespace, including double spaces and leading/trailing spaces." @@
    "Format Date" :>
        "Format this as a standard date (YYYY-MM-DD)." @@
    "Format Phone Number" :>
        "Format this as a standard phone number." @@
    "Format Currency" :>
        "Format this as a standard currency value." @@
    "Format Percentage" :>
        "Format this as a percentage." @@
    "Extract Numbers" :>
        "Extract all numbers from this text." @@
    "Format Address" :>
        "Format this as a properly structured address with standard capitalization." @@
    "Format Email" :>
        "Format this as a proper email address (lowercase, no extra spaces)." @@
    "Summarize" :>
        "Summarize this text in one sentence." @@
    "Expand" :>
        "Expand this abbreviated or short text with more details while maintaining its meaning." @@
    "Bullet Points" :>
        "Convert this text into a bulleted list of key points." @@
    "Fix Grammar" :>
        "Fix any grammar or spelling errors in this text." @@
    "Simplify" :>
        "Simplify this text to make it easier to understand while preserving the key information." @@
    "Formalize" :>
        "Rewrite this text in a more formal, professional tone." @@
    "Casualize" :>
        "Rewrite this text in a more casual, conversational tone." @@
    "Format JSON" :>
        "Format this as valid, properly indented JSON." @@
    "Format XML" :>
        "Format this as valid, properly indented XML." @@
    "Format CSV" :>
        "Format this as valid CSV with proper delimiters and escaping." @@
    "HTML to Text" :>
        "Convert this HTML to well-structured plain text, preserving the semantic structure." @@
    "Markdown to Text" :>
        "Convert this Markdown to plain text while preserving the content structure." @@
    "Clean Code" :>
        "Clean up and format this code snippet with proper indentation and style." @@
    "Translate to English" :>
        "Translate this text to English." @@
    "Translate to Arabic" :>
        "Translate this text to Arabic." @@
    "Translate to Hebrew" :>
        "Translate this text to Hebrew." @@
    "Remove Duplicates" :>
        "Remove any duplicate information from this text." @@
    "Remove HTML Tags" :>
        "Remove all HTML tags from this text, keeping only the content." @@
    "Fix Encoding Issues" :>
        "Fix text encoding issues like garbled characters or HTML entities." @@
    "Fill Blank" :>
        "Complete the blank or missing information in this cell based on context from surrounding cells." @@
    "Standardize Format" :>
        "Standardize the format of this data according to conventions." @@
    "Extract Dates" :>
        "Extract all dates from this text and format them consistently." @@
    "Split Name" :>
        "Split this full name into separate first name and last name components." @@
    "Format Name" :>
        "Format this name with proper capitalization and spacing." @@
    "Convert to Citation" :>
        "Convert this reference information to a proper citation format."

\* The method called last: its name and, for restore_defaults, include_prompts.
Op(name, include_prompts) == [op |-> name, include_prompts |-> include_prompts]

\* AppConfig.__init__ with no configuration file to load.
InitConfig ==
    /\ prompts = InitPrompts
    /\ recent_files = <<>>
    /\ last_op = Op("__init__", FALSE)
    /\ config_file = [saved |-> FALSE, prompts |-> <<>>, recent_files |-> <<>>]

\* A call of process_single_cell that has not returned.
NoReturn == [returned |-> FALSE]

\* GeminiAPIManager.__init__ with no call of process_single_cell under way.
InitGeminiIdle ==
    /\ request_count = 0
    /\ request_start_time = now
    /\ call_pc = [t \in Threads |-> "idle"]
    /\ response = [t \in Threads |-> "none"]
    /\ returned = [t \in Threads |-> NoReturn]
    /\ sent = 0

\* BatchProcessor.__init__, with a Tk root that exists.
InitBatchProcessor ==
    /\ root_alive = TRUE
    /\ processing_cancelled = FALSE
    /\ current_task = NoTask
    /\ taskFuture = [r \in Runs |-> "none"]
    /\ ready = <<>>
    /\ pc = [r \in Runs |-> "idle"]
    /\ batch_idx = [r \in Runs |-> 0]
    /\ cell_idx = [r \in Runs |-> 0]
    /\ processed = [r \in Runs |-> 0]
    /\ success_count = [r \in Runs |-> 0]
    /\ error_count = [r \in Runs |-> 0]
    /\ batch_results = [r \in Runs |-> <<>>]
    /\ all_results = [r \in Runs |-> <<>>]
    /\ progress = [r \in Runs |-> <<>>]
    /\ completion = [r \in Runs |-> <<>>]
    /\ calls = [r \in Runs |-> <<>>]
    /\ cancelCalled = [r \in Runs |-> FALSE]
    /\ cancelQueued = [r \in Runs |-> FALSE]
    /\ callsAtCancel = [r \in Runs |-> 0]
    /\ observed = [r \in Runs |-> "no"]
    /\ procAtObs = [r \in Runs |-> 0]
    /\ cancelInFlight = [r \in Runs |-> FALSE]
    /\ callsAtAnyCancel = [r \in Runs |-> 0]
    /\ handed = [r \in Runs |-> <<>>]

Init ==
    /\ cells \in CellLists
    /\ batch_size \in 1..MaxBatch
    /\ InitBatchProcessor
    /\ client = TRUE
    /\ max_requests_per_minute = MaxRequests
    /\ now = 0
    /\ InitGeminiIdle
    /\ InitConfig

(***************************************************************************)
(* The Tk main thread.                                                     *)
(***************************************************************************)

\* process_batches: reset the flag, hand the coroutine to the loop, keep the future.
process_batches(r) ==
    /\ pc[r] = "idle"
    /\ \A q \in Runs : q < r => pc[q] # "idle"
    /\ processing_cancelled' = FALSE
    /\ current_task' = r
    /\ taskFuture' = [taskFuture EXCEPT ![r] = "pending"]
    /\ ready' = Append(ready, Entry("start", r))
    /\ pc' = [pc EXCEPT ![r] = "queued"]
    /\ UNCHANGED <<inputs, root_alive, gemini, config, runLocals, progress, completion, handed, calls, ghosts>>

\* process_batches for a run that is not followed: what the call does to the instance.
process_batches_other ==
    /\ processing_cancelled' = FALSE
    /\ current_task' = OtherTask
    /\ UNCHANGED <<inputs, root_alive, gemini, config, taskFuture, ready, pc, runLocals, progress, completion, handed, calls,
                   ghosts>>

\* cancel_processing that sets the flag and leaves the task alone.
cancel_processing_flag_only ==
    /\ processing_cancelled' = TRUE
    /\ IF current_task \in Runs /\ pc[current_task] \in InFlight
       THEN /\ cancelCalled' = [cancelCalled EXCEPT ![current_task] = TRUE]
            /\ cancelQueued' = [cancelQueued EXCEPT ![current_task] =
                                    @ \/ pc[current_task] = "queued"]
            /\ callsAtCancel' = [callsAtCancel EXCEPT ![current_task] =
                                    IF cancelCalled[current_task] THEN @
                                    ELSE Len(calls[current_task])]
       ELSE UNCHANGED <<cancelCalled, cancelQueued, callsAtCancel>>
    /\ cancelInFlight' = [r \in Runs |-> cancelInFlight[r] \/ pc[r] \in InFlight]
    /\ callsAtAnyCancel' = [r \in Runs |->
                                IF cancelInFlight[r] \/ pc[r] \notin InFlight
                                THEN callsAtAnyCancel[r] ELSE Len(calls[r])]
    /\ UNCHANGED <<inputs, root_alive, gemini, config, current_task, taskFuture, ready, pc, runLocals, progress,
                   completion, handed, calls, observed, procAtObs>>

\* cancel_processing: set the flag; a future that is not done is cancelled, and its
\* done-callback hands task.cancel to the loop (call_soon_threadsafe).
cancel_processing ==
    /\ processing_cancelled' = TRUE
    /\ IF current_task \in Runs /\ taskFuture[current_task] = "pending"
       THEN /\ taskFuture' = [taskFuture EXCEPT ![current_task] = "cancelled"]
            /\ ready' = Append(ready, Entry("cancel", current_task))
       ELSE UNCHANGED <<taskFuture, ready>>
    /\ IF current_task \in Runs /\ pc[current_task] \in InFlight
       THEN /\ cancelCalled' = [cancelCalled EXCEPT ![current_task] = TRUE]
            /\ cancelQueued' = [cancelQueued EXCEPT ![current_task] =
                                    @ \/ pc[current_task] = "queued"]
            /\ callsAtCancel' = [callsAtCancel EXCEPT ![current_task] =
                                    IF cancelCalled[current_task] THEN @
                                    ELSE Len(calls[current_task])]
       ELSE UNCHANGED <<cancelCalled, cancelQueued, callsAtCancel>>
    /\ cancelInFlight' = [r \in Runs |-> cancelInFlight[r] \/ pc[r] \in InFlight]
    /\ callsAtAnyCancel' = [r \in Runs |->
                                IF cancelInFlight[r] \/ pc[r] \notin InFlight
                                THEN callsAtAnyCancel[r] ELSE Len(calls[r])]
    /\ UNCHANGED <<inputs, root_alive, gemini, config, current_task, pc, runLocals, progress, completion, handed, calls,
                   observed, procAtObs>>

(***************************************************************************)
(* The executor and the loop's timers.                                     *)
(***************************************************************************)

\* What the call of api_manager.process_single_cell in the executor may do: return
\* (True, text, None), return (False, None, text), raise an exception, or return a
\* value that is not a 3-tuple.
ProcessorReturns == {"ok", "fail", "raise", "malformed"}

\* _process_single_cell_async: the executor's return as it is, an exception (of the
\* call, or of reading cell['content']) as (False, None, str(e)).
ProcessSingleCellAsync(ret) == IF ret = "raise" THEN "fail" ELSE ret

\* The executor's call returns: the loop is told (call_soon_threadsafe) and will
\* wake the task.
ExecutorDone(r) ==
    /\ pc[r] = "awaitCell"
    /\ ~HasWake(r)
    /\ ready' = Append(ready, Entry("wake", r))
    /\ UNCHANGED <<inputs, root_alive, gemini, config, handle, pc, runLocals, progress, completion, handed, calls, ghosts>>

\* An asyncio.sleep is due.
TimerFires(r) ==
    /\ pc[r] \in {"sleepCell", "sleepBatch"}
    /\ ~HasWake(r)
    /\ ready' = Append(ready, Entry("wake", r))
    /\ UNCHANGED <<inputs, root_alive, gemini, config, handle, pc, runLocals, progress, completion, handed, calls, ghosts>>

(***************************************************************************)
(* The event-loop thread: _process_batches_async.                          *)
(***************************************************************************)

StatusBatch(r) == <<"Processing batch", batch_idx[r] + 1, Len(batches)>>
StatusCell(r) ==
    <<"Processing batch", batch_idx[r] + 1, Len(batches), cell_idx[r] + 1, Len(Batch(r))>>
StatusBatchDone(r) == <<"Completed batch", batch_idx[r] + 1, Len(batches)>>
StatusCompleted == <<"Processing completed">>
StatusCancelled == <<"Processing cancelled">>
StatusError == <<"Error">>

\* The run meets the cancellation: at a check point ("flag") or as CancelledError.
Observe(r, how) ==
    /\ observed' = [observed EXCEPT ![r] = IF @ = "no" THEN how ELSE @]
    /\ procAtObs' = [procAtObs EXCEPT ![r] = IF observed[r] = "no" THEN processed[r] ELSE @]
    /\ UNCHANGED <<cancelCalled, cancelQueued, callsAtCancel, cancelInFlight,
                   callsAtAnyCancel>>

\* Lines 86-95: the task's first step; the counters, the batches, the first batch.
RunStart(r) ==
    /\ LoopFree
    /\ ready # <<>> /\ Head(ready) = Entry("start", r)
    /\ ready' = Tail(ready)
    /\ processed' = [processed EXCEPT ![r] = 0]
    /\ success_count' = [success_count EXCEPT ![r] = 0]
    /\ error_count' = [error_count EXCEPT ![r] = 0]
    /\ all_results' = [all_results EXCEPT ![r] = <<>>]
    /\ batch_idx' = [batch_idx EXCEPT ![r] = 0]
    /\ pc' = [pc EXCEPT ![r] = IF Len(batches) = 0 THEN "final" ELSE "batchCheck"]
    /\ UNCHANGED <<inputs, root_alive, gemini, config, handle, cell_idx, batch_results, progress, completion, handed,
                   calls, ghosts>>

\* BatchCheck that enters the batch without its start event.
BatchCheckWithoutEvent(r) ==
    /\ pc[r] = "batchCheck"
    /\ IF processing_cancelled
       THEN /\ pc' = [pc EXCEPT ![r] = "final"]
            /\ Observe(r, "flag")
            /\ UNCHANGED <<batch_results, cell_idx>>
       ELSE /\ batch_results' = [batch_results EXCEPT ![r] = <<>>]
            /\ cell_idx' = [cell_idx EXCEPT ![r] = 0]
            /\ pc' = [pc EXCEPT ![r] = "cellCheck"]
            /\ UNCHANGED ghosts
    /\ UNCHANGED <<inputs, root_alive, gemini, config, handle, ready, batch_idx, processed,
                   success_count, error_count, all_results, progress, handed, completion, calls>>

\* Lines 96-105: the check at the top of a batch, the batch's start event.
BatchCheck(r) ==
    /\ pc[r] = "batchCheck"
    /\ IF processing_cancelled
       THEN /\ pc' = [pc EXCEPT ![r] = "final"]
            /\ Observe(r, "flag")
            /\ UNCHANGED <<progress, handed, batch_results, cell_idx>>
       ELSE /\ UpdateProgress(r, StatusBatch(r))
            /\ RootAfter(r, <<"progress">>)
            /\ batch_results' = [batch_results EXCEPT ![r] = <<>>]
            /\ cell_idx' = [cell_idx EXCEPT ![r] = 0]
            /\ pc' = [pc EXCEPT ![r] = "cellCheck"]
            /\ UNCHANGED ghosts
    /\ UNCHANGED <<inputs, root_alive, gemini, config, handle, ready, batch_idx, processed, success_count,
                   error_count, all_results, completion, calls>>

\* Lines 141-148: the batch is over (its cells done, or the inner break); the task
\* then sleeps 0.5 s.
EndBatch(r) ==
    /\ all_results' = [all_results EXCEPT ![r] = @ \o batch_results[r]]
    /\ UpdateProgress(r, StatusBatchDone(r))
    /\ RootAfter(r, <<"progress">>)
    /\ pc' = [pc EXCEPT ![r] = "sleepBatch"]

\* Lines 106-107: the check before a cell.
CellCheck(r) ==
    /\ pc[r] = "cellCheck"
    /\ IF processing_cancelled
       THEN /\ EndBatch(r)
            /\ Observe(r, "flag")
       ELSE /\ pc' = [pc EXCEPT ![r] = "dispatch"]
            /\ UNCHANGED <<all_results, progress, handed, ghosts>>
    /\ UNCHANGED <<inputs, root_alive, gemini, config, handle, ready, batch_idx, cell_idx, processed, success_count,
                   error_count, batch_results, completion, calls>>

\* Dispatch that does not wait for the cell's call.
DispatchNoAwait(r) ==
    /\ pc[r] = "dispatch"
    /\ calls' = [calls EXCEPT ![r] = Append(@, CurCell(r))]
    /\ pc' = [pc EXCEPT ![r] = "sleepCell"]
    /\ UNCHANGED <<inputs, root_alive, gemini, config, handle, ready, runLocals, progress,
                   completion, handed, ghosts>>

\* Lines 110, 179-189: the cell goes to the executor, the task awaits its future.
Dispatch(r) ==
    /\ pc[r] = "dispatch"
    /\ calls' = [calls EXCEPT ![r] = Append(@, CurCell(r))]
    /\ pc' = [pc EXCEPT ![r] = "awaitCell"]
    /\ UNCHANGED <<inputs, root_alive, gemini, config, handle, ready, runLocals, progress, completion, handed, ghosts>>

\* RecordCell with a failed cell counted in neither counter.
RecordCellMiscount(r, res) ==
    /\ batch_results' = [batch_results EXCEPT ![r] = Append(@, CellResult(CurCell(r), res))]
    /\ processed' = [processed EXCEPT ![r] = @ + 1]
    /\ success_count' = [success_count EXCEPT ![r] = IF res = "ok" THEN @ + 1 ELSE @]
    /\ error_count' = error_count
    /\ progress' = [progress EXCEPT ![r] = Append(@,
           [processed |-> processed'[r], success_count |-> success_count'[r],
            error_count |-> error_count'[r], total |-> Len(cells),
            status |-> StatusCell(r)])]
    /\ RootAfter(r, <<"progress">>)
    /\ pc' = [pc EXCEPT ![r] = "sleepCell"]
    /\ UNCHANGED <<taskFuture, completion, batch_idx, cell_idx, all_results>>

\* RecordCell with a failed cell ending the loop.
RecordCellStopsOnFailure(r, res) ==
    /\ batch_results' = [batch_results EXCEPT ![r] = Append(@, CellResult(CurCell(r), res))]
    /\ processed' = [processed EXCEPT ![r] = @ + 1]
    /\ success_count' = [success_count EXCEPT ![r] = IF res = "ok" THEN @ + 1 ELSE @]
    /\ error_count' = [error_count EXCEPT ![r] = IF res = "ok" THEN @ ELSE @ + 1]
    /\ progress' = [progress EXCEPT ![r] = Append(@,
           [processed |-> processed'[r], success_count |-> success_count'[r],
            error_count |-> error_count'[r], total |-> Len(cells),
            status |-> StatusCell(r)])]
    /\ RootAfter(r, <<"progress">>)
    /\ pc' = [pc EXCEPT ![r] = IF res = "ok" THEN "sleepCell" ELSE "final"]
    /\ UNCHANGED <<taskFuture, completion, batch_idx, cell_idx, all_results>>

\* Lines 114-138: the cell's result, the counters, the fine-grained event; the task
\* then sleeps 0.2 s.
RecordCell(r, res) ==
    /\ batch_results' = [batch_results EXCEPT ![r] = Append(@, CellResult(CurCell(r), res))]
    /\ processed' = [processed EXCEPT ![r] = @ + 1]
    /\ success_count' = [success_count EXCEPT ![r] = IF res = "ok" THEN @ + 1 ELSE @]
    /\ error_count' = [error_count EXCEPT ![r] = IF res = "ok" THEN @ ELSE @ + 1]
    /\ progress' = [progress EXCEPT ![r] = Append(@,
           [processed |-> processed'[r], success_count |-> success_count'[r],
            error_count |-> error_count'[r], total |-> Len(cells),
            status |-> StatusCell(r)])]
    /\ RootAfter(r, <<"progress">>)
    /\ pc' = [pc EXCEPT ![r] = "sleepCell"]
    /\ UNCHANGED <<taskFuture, completion, batch_idx, cell_idx, all_results>>

\* Lines 163-167: except Exception.
HandleException(r) ==
    /\ UpdateProgress(r, StatusError)
    /\ CallCompletion(r)
    /\ RootAfter(r, <<"progress", "completion">>)
    /\ TaskEnds(r)
    /\ UNCHANGED runLocals

\* HandleCancelled without the completion callback.
HandleCancelledNoCompletion(r) ==
    /\ UpdateProgress(r, StatusCancelled)
    /\ UNCHANGED completion
    /\ RootAfter(r, <<"progress">>)
    /\ TaskEnds(r)
    /\ UNCHANGED runLocals

\* Lines 157-161: except asyncio.CancelledError.
HandleCancelled(r) ==
    /\ UpdateProgress(r, StatusCancelled)
    /\ CallCompletion(r)
    /\ RootAfter(r, <<"progress", "completion">>)
    /\ TaskEnds(r)
    /\ UNCHANGED runLocals

\* The task wakes with the executor's return: line 110 unpacks it, or cannot
\* ("malformed": not a 3-tuple) and the exception reaches line 163.
WakeCell(r) ==
    /\ LoopFree
    /\ ready # <<>> /\ Head(ready) = Entry("wake", r)
    /\ pc[r] = "awaitCell"
    /\ ready' = Tail(ready)
    /\ \E ret \in ProcessorReturns :
           LET res == ProcessSingleCellAsync(ret)
           IN  IF res = "malformed"
               THEN HandleException(r)
               ELSE RecordCell(r, res)
    /\ UNCHANGED <<inputs, root_alive, gemini, config, processing_cancelled, current_task, calls, ghosts>>

\* The task wakes from the 0.2 s sleep: the next cell of the batch, or the batch's end.
WakeSleepCell(r) ==
    /\ LoopFree
    /\ ready # <<>> /\ Head(ready) = Entry("wake", r)
    /\ pc[r] = "sleepCell"
    /\ ready' = Tail(ready)
    /\ IF cell_idx[r] + 1 < Len(Batch(r))
       THEN /\ cell_idx' = [cell_idx EXCEPT ![r] = @ + 1]
            /\ pc' = [pc EXCEPT ![r] = "cellCheck"]
            /\ UNCHANGED <<all_results, progress, handed>>
       ELSE /\ EndBatch(r)
            /\ UNCHANGED cell_idx
    /\ UNCHANGED <<inputs, root_alive, gemini, config, handle, batch_idx, processed, success_count, error_count,
                   batch_results, completion, calls, ghosts>>

\* WakeSleepBatch that leaves the loop after the first batch.
WakeSleepBatchStops(r) ==
    /\ LoopFree
    /\ ready # <<>> /\ Head(ready) = Entry("wake", r)
    /\ pc[r] = "sleepBatch"
    /\ ready' = Tail(ready)
    /\ pc' = [pc EXCEPT ![r] = "final"]
    /\ UNCHANGED <<inputs, root_alive, gemini, config, handle, runLocals, progress, completion, handed, calls, ghosts>>

\* The task wakes from the 0.5 s sleep: the next batch, or the end of the loop.
WakeSleepBatch(r) ==
    /\ LoopFree
    /\ ready # <<>> /\ Head(ready) = Entry("wake", r)
    /\ pc[r] = "sleepBatch"
    /\ ready' = Tail(ready)
    /\ IF batch_idx[r] + 1 < Len(batches)
       THEN /\ batch_idx' = [batch_idx EXCEPT ![r] = @ + 1]
            /\ pc' = [pc EXCEPT ![r] = "batchCheck"]
       ELSE /\ pc' = [pc EXCEPT ![r] = "final"]
            /\ UNCHANGED batch_idx
    /\ UNCHANGED <<inputs, root_alive, gemini, config, handle, cell_idx, processed, success_count, error_count,
                   batch_results, all_results, progress, completion, handed, calls, ghosts>>

\* TaskCancel that raises nothing in the task.
TaskCancelIgnored(r) ==
    /\ LoopFree
    /\ ready # <<>> /\ Head(ready) = Entry("cancel", r)
    /\ ready' = Tail(ready)
    /\ UNCHANGED <<inputs, root_alive, gemini, config, handle, pc, runLocals, progress, completion, handed, calls, ghosts>>

\* task.cancel() runs on the loop: a task suspended at an await gets CancelledError
\* there (a wake-up queued behind the cancel is lost); a finished task is left alone.
TaskCancel(r) ==
    /\ LoopFree
    /\ ready # <<>> /\ Head(ready) = Entry("cancel", r)
    /\ IF pc[r] \in Awaits
       THEN /\ ready' = DropWake(Tail(ready), r)
            /\ HandleCancelled(r)
            /\ Observe(r, "CancelledError")
       ELSE /\ ready' = Tail(ready)
            /\ UNCHANGED <<pc, taskFuture, runLocals, progress, completion, handed, ghosts>>
    /\ UNCHANGED <<inputs, root_alive, gemini, config, processing_cancelled, current_task, calls>>

\* Final with the completion callback scheduled before the final progress event.
FinalCompletionFirst(r) ==
    /\ pc[r] = "final"
    /\ UpdateProgress(r, IF processing_cancelled THEN StatusCancelled ELSE StatusCompleted)
    /\ CallCompletion(r)
    /\ RootAfter(r, <<"completion", "progress">>)
    /\ TaskEnds(r)
    /\ UNCHANGED <<inputs, root_alive, gemini, config, processing_cancelled, current_task, ready,
                   runLocals, calls, ghosts>>

\* Final that returns after the final status, without the completion callback.
FinalWithoutCompletion(r) ==
    /\ pc[r] = "final"
    /\ UpdateProgress(r, IF processing_cancelled THEN StatusCancelled ELSE StatusCompleted)
    /\ RootAfter(r, <<"progress">>)
    /\ TaskEnds(r)
    /\ UNCHANGED <<inputs, root_alive, gemini, config, processing_cancelled, current_task, ready,
                   runLocals, completion, calls, ghosts>>

\* Lines 150-155: the final status, read from the flag, and the completion.
Final(r) ==
    /\ pc[r] = "final"
    /\ UpdateProgress(r, IF processing_cancelled THEN StatusCancelled ELSE StatusCompleted)
    /\ CallCompletion(r)
    /\ RootAfter(r, <<"progress", "completion">>)
    /\ TaskEnds(r)
    /\ UNCHANGED <<inputs, root_alive, gemini, config, processing_cancelled, current_task, ready, runLocals, calls,
                   ghosts>>

(***************************************************************************)
(* The Tk root is destroyed while runs are in flight.                      *)
(***************************************************************************)

\* root.destroy() on the Tk thread.
root_destroy ==
    /\ root_alive
    /\ root_alive' = FALSE
    /\ UNCHANGED <<inputs, gemini, config, handle, ready, pc, runLocals, progress, completion,
                   handed, calls, ghosts>>

\* The task ends with an exception that left the coroutine.
TaskFails(r) ==
    /\ pc' = [pc EXCEPT ![r] = "failed"]
    /\ taskFuture' = [taskFuture EXCEPT ![r] = IF @ = "pending" THEN "finished" ELSE @]

\* Lines 101, 145, 152 with the root destroyed: root.after raises in the try body,
\* line 163 catches it, and root.after raises again at line 166, out of the handler.
ReportRaisesRunning(r) ==
    /\ ~root_alive
    /\ \/ pc[r] = "batchCheck" /\ ~processing_cancelled /\ UNCHANGED ghosts
       \/ pc[r] = "cellCheck" /\ processing_cancelled /\ Observe(r, "flag")
       \/ pc[r] = "final" /\ UNCHANGED ghosts
    /\ TaskFails(r)
    /\ UNCHANGED <<inputs, root_alive, gemini, config, processing_cancelled, current_task, ready,
                   runLocals, progress, completion, handed, calls>>

\* Lines 132, 145 with the root destroyed, on the task's wake-up from the cell's call
\* or from the sleep after the last cell of a batch: as above.
ReportRaisesOnWake(r) ==
    /\ ~root_alive
    /\ LoopFree
    /\ ready # <<>> /\ Head(ready) = Entry("wake", r)
    /\ \/ pc[r] = "awaitCell"
       \/ pc[r] = "sleepCell" /\ cell_idx[r] + 1 >= Len(Batch(r))
    /\ ready' = Tail(ready)
    /\ TaskFails(r)
    /\ UNCHANGED <<inputs, root_alive, gemini, config, processing_cancelled, current_task,
                   runLocals, progress, completion, handed, calls, ghosts>>

\* Line 159 with the root destroyed: root.after raises in the CancelledError handler
\* and the exception leaves the coroutine.
ReportRaisesOnCancel(r) ==
    /\ ~root_alive
    /\ LoopFree
    /\ ready # <<>> /\ Head(ready) = Entry("cancel", r)
    /\ pc[r] \in Awaits
    /\ ready' = DropWake(Tail(ready), r)
    /\ TaskFails(r)
    /\ Observe(r, "CancelledError")
    /\ UNCHANGED <<inputs, root_alive, gemini, config, processing_cancelled, current_task,
                   runLocals, progress, completion, handed, calls>>

\* One followed run, and any number of further calls on the instance.
Next ==
    \/ process_batches(1)
    \/ process_batches_other
    \/ cancel_processing
    \/ \E r \in Runs : ExecutorDone(r)
    \/ \E r \in Runs : TimerFires(r)
    \/ \E r \in Runs : RunStart(r)
    \/ \E r \in Runs : BatchCheck(r)
    \/ \E r \in Runs : CellCheck(r)
    \/ \E r \in Runs : Dispatch(r)
    \/ \E r \in Runs : WakeCell(r)
    \/ \E r \in Runs : WakeSleepCell(r)
    \/ \E r \in Runs : WakeSleepBatch(r)
    \/ \E r \in Runs : TaskCancel(r)
    \/ \E r \in Runs : Final(r)

Spec == Init /\ [][Next]_vars

\* One callback of the event loop on behalf of run r.
LoopStep(r) ==
    \/ RunStart(r) \/ BatchCheck(r) \/ CellCheck(r) \/ Dispatch(r)
    \/ WakeCell(r) \/ WakeSleepCell(r) \/ WakeSleepBatch(r)
    \/ TaskCancel(r) \/ Final(r)

\* The event loop keeps running its ready callbacks, every call in the executor
\* returns, and every asyncio.sleep comes due.  Nothing is assumed of the Tk
\* thread: it may call process_batches and cancel_processing or not.
Fairness ==
    \A r \in Runs :
        /\ WF_vars(LoopStep(r))
        /\ WF_vars(ExecutorDone(r))
        /\ WF_vars(TimerFires(r))

SpecLive == Init /\ [][Next]_vars /\ Fairness

\* Two followed runs, which may overlap.
NextOverlap ==
    \/ \E r \in Runs : process_batches(r)
    \/ process_batches_other
    \/ cancel_processing
    \/ \E r \in Runs : ExecutorDone(r)
    \/ \E r \in Runs : TimerFires(r)
    \/ \E r \in Runs : RunStart(r)
    \/ \E r \in Runs : BatchCheck(r)
    \/ \E r \in Runs : CellCheck(r)
    \/ \E r \in Runs : Dispatch(r)
    \/ \E r \in Runs : WakeCell(r)
    \/ \E r \in Runs : WakeSleepCell(r)
    \/ \E r \in Runs : WakeSleepBatch(r)
    \/ \E r \in Runs : TaskCancel(r)
    \/ \E r \in Runs : Final(r)

InitOverlap == Init /\ Len(cells) <= MaxOverlapCells

SpecOverlap == InitOverlap /\ [][NextOverlap]_vars

\* One followed run, with a Tk root that may be destroyed at any time.
NextTeardown ==
    \/ process_batches(1)
    \/ process_batches_other
    \/ cancel_processing
    \/ root_destroy
    \/ \E r \in Runs : ExecutorDone(r)
    \/ \E r \in Runs : TimerFires(r)
    \/ \E r \in Runs : RunStart(r)
    \/ \E r \in Runs : BatchCheck(r)
    \/ \E r \in Runs : CellCheck(r)
    \/ \E r \in Runs : Dispatch(r)
    \/ \E r \in Runs : WakeCell(r)
    \/ \E r \in Runs : WakeSleepCell(r)
    \/ \E r \in Runs : WakeSleepBatch(r)
    \/ \E r \in Runs : TaskCancel(r)
    \/ \E r \in Runs : Final(r)
    \/ \E r \in Runs : ReportRaisesRunning(r)
    \/ \E r \in Runs : ReportRaisesOnWake(r)
    \/ \E r \in Runs : ReportRaisesOnCancel(r)

SpecTeardown == Init /\ [][NextTeardown]_vars

(***************************************************************************)
(* The cell processor: GeminiAPIManager.process_single_cell, called in     *)
(* executor threads, and its rate limiter.                                 *)
(***************************************************************************)

\* A (success, result, error_message) tuple.
Tuple3(success, result, error) == [success |-> success, result |-> result, error |-> error]

\* What generate_content may do: return a response (without candidates, blocked by
\* the safety filters, with a text, with an empty text, with a text whose access
\* raises ValueError, or one whose inspection raises something else), or raise
\* GoogleAPIError (code 403, 429, 500, other) or another exception.
Responses == {"no candidates", "blocked", "text", "empty text", "text ValueError",
              "response raises"}
ApiErrors == {"GoogleAPIError 403", "GoogleAPIError 429", "GoogleAPIError 500",
              "GoogleAPIError", "Exception"}

\* ReturnFor with an empty text returned as a success without a result.
ReturnForEmptyIsSuccess(outcome) ==
    IF outcome = "text" THEN Tuple3(TRUE, "text", None)
    ELSE IF outcome = "empty text" THEN Tuple3(TRUE, None, None)
    ELSE IF outcome = "GoogleAPIError 429" THEN Tuple3(FALSE, None, "Rate limit exceeded")
    ELSE Tuple3(FALSE, None, outcome)

\* The return statements of process_single_cell, by what led to them; the error
\* message stands for the text of the statement.  The provider's 429 (line 362)
\* is returned with the very text of the limiter's refusal (line 274).
ReturnFor(outcome) ==
    IF outcome = "text" THEN Tuple3(TRUE, "text", None)
    ELSE IF outcome = "GoogleAPIError 429" THEN Tuple3(FALSE, None, "Rate limit exceeded")
    ELSE Tuple3(FALSE, None, outcome)

\* _process_single_cell_async line 194: (False, None, str(e)).
Fallback == Tuple3(FALSE, None, "str(e)")

\* cell_result as lines 114-121 build it from the tuple.
CellResultOf(cell, ret) ==
    [row |-> cell.row, col |-> cell.col, success |-> ret.success,
     result |-> ret.result, error |-> ret.error]

\* A call returns to its caller.
Return(t, ret) ==
    /\ call_pc' = [call_pc EXCEPT ![t] = "idle"]
    /\ returned' = [returned EXCEPT ![t] = ret]

\* _process_single_cell_async line 179 and process_single_cell lines 269-271:
\* reading the cell's content raises and line 194 returns; or the call reaches the
\* executor, where a missing client is initialized, or cannot be.
CallBegins(t) ==
    \/ /\ Return(t, Fallback)
       /\ UNCHANGED client
    \/ /\ client
       /\ call_pc' = [call_pc EXCEPT ![t] = "check"]
       /\ returned' = [returned EXCEPT ![t] = NoReturn]
       /\ UNCHANGED client
    \/ /\ ~client
       /\ \/ /\ client' = TRUE
             /\ call_pc' = [call_pc EXCEPT ![t] = "check"]
             /\ returned' = [returned EXCEPT ![t] = NoReturn]
          \/ /\ Return(t, ReturnFor("API client not initialized"))
             /\ UNCHANGED client

\* A call of process_single_cell made on executor thread t.
CallStart(t) ==
    /\ call_pc[t] = "idle"
    /\ CallBegins(t)
    /\ UNCHANGED <<batchProcessor, config, request_count, request_start_time,
                   max_requests_per_minute, now, response, sent>>

\* CheckRateLimit whose window rolls over at 60 s sharp and that never refuses.
CheckRateLimitAlwaysPasses(t) ==
    /\ call_pc[t] = "check"
    /\ IF now - request_start_time >= Window
       THEN /\ request_count' = 0
            /\ request_start_time' = now
            /\ sent' = 0
       ELSE UNCHANGED <<request_count, request_start_time, sent>>
    /\ call_pc' = [call_pc EXCEPT ![t] = "generate"]
    /\ UNCHANGED <<batchProcessor, config, client, max_requests_per_minute, now, response,
                   returned>>

\* CheckRateLimit whose refusal restarts the window.
CheckRateLimitDenialRestartsWindow(t) ==
    /\ call_pc[t] = "check"
    /\ IF now - request_start_time > Window
       THEN /\ request_count' = 0
            /\ request_start_time' = now
            /\ sent' = 0
            /\ call_pc' = [call_pc EXCEPT ![t] = "generate"]
            /\ UNCHANGED returned
       ELSE IF request_count < max_requests_per_minute
       THEN /\ call_pc' = [call_pc EXCEPT ![t] = "generate"]
            /\ UNCHANGED <<request_count, request_start_time, returned, sent>>
       ELSE /\ Return(t, ReturnFor("Rate limit exceeded"))
            /\ request_start_time' = now
            /\ UNCHANGED <<request_count, sent>>
    /\ UNCHANGED <<batchProcessor, config, client, max_requests_per_minute, now, response>>

\* Lines 273-274 and _check_rate_limit: a window older than 60 s is reset and the
\* call goes on; otherwise it goes on if request_count is below the limit, and
\* returns the rate-limit failure if not.
CheckRateLimit(t) ==
    /\ call_pc[t] = "check"
    /\ IF now - request_start_time > Window
       THEN /\ request_count' = 0
            /\ request_start_time' = now
            /\ sent' = 0
            /\ call_pc' = [call_pc EXCEPT ![t] = "generate"]
            /\ UNCHANGED returned
       ELSE IF request_count < max_requests_per_minute
       THEN /\ call_pc' = [call_pc EXCEPT ![t] = "generate"]
            /\ UNCHANGED <<request_count, request_start_time, returned, sent>>
       ELSE /\ Return(t, ReturnFor("Rate limit exceeded"))
            /\ UNCHANGED <<request_count, request_start_time, sent>>
    /\ UNCHANGED <<batchProcessor, config, client, max_requests_per_minute, now, response>>

\* Lines 316-320 and 352-371: generate_content returns a response, or raises and
\* the call returns the failure, the request not counted.  Either way a request
\* went to the provider; sent follows them up to MaxSent.
GenerateContent(t) ==
    /\ call_pc[t] = "generate"
    /\ sent' = Min(sent + 1, MaxSent)
    /\ \/ \E resp \in Responses :
              /\ response' = [response EXCEPT ![t] = resp]
              /\ call_pc' = [call_pc EXCEPT ![t] = "increment"]
              /\ UNCHANGED returned
       \/ \E err \in ApiErrors :
              /\ Return(t, ReturnFor(err))
              /\ UNCHANGED response
    /\ UNCHANGED <<batchProcessor, config, client, request_count, request_start_time,
                   max_requests_per_minute, now>>

\* Lines 323-350 and _increment_request_count: the request is counted (in a new
\* window if the old one is over 60 s), then the response is turned into the tuple.
IncrementRequestCount(t) ==
    /\ call_pc[t] = "increment"
    /\ IF now - request_start_time > Window
       THEN /\ request_count' = 1
            /\ request_start_time' = now
            /\ sent' = 1
       ELSE /\ request_count' = request_count + 1
            /\ UNCHANGED <<request_start_time, sent>>
    /\ Return(t, ReturnFor(response[t]))
    /\ response' = [response EXCEPT ![t] = "none"]
    /\ UNCHANGED <<batchProcessor, config, client, max_requests_per_minute, now>>

\* time.time() advances.
Tick ==
    /\ \E d \in TimeSteps :
           /\ now + d <= MaxTime
           /\ now' = now + d
    /\ UNCHANGED <<batchProcessor, config, client, request_count, request_start_time,
                   max_requests_per_minute, call_pc, response, returned, sent>>

\* A manager with some limit, with or without a client, and no batch run.
InitGemini ==
    /\ cells = <<>>
    /\ batch_size = 1
    /\ InitBatchProcessor
    /\ client \in BOOLEAN
    /\ max_requests_per_minute \in 1..MaxRequests
    /\ now = 0
    /\ InitGeminiIdle
    /\ InitConfig

NextGemini ==
    \/ \E t \in Threads : CallStart(t)
    \/ \E t \in Threads : CheckRateLimit(t)
    \/ \E t \in Threads : GenerateContent(t)
    \/ \E t \in Threads : IncrementRequestCount(t)
    \/ Tick

SpecGemini == InitGemini /\ [][NextGemini]_vars

\* Sequential use: a call starts only when no other call is under way.
CallStartSequential(t) ==
    /\ \A u \in Threads : call_pc[u] = "idle"
    /\ CallStart(t)

NextGeminiSequential ==
    \/ \E t \in Threads : CallStartSequential(t)
    \/ \E t \in Threads : CheckRateLimit(t)
    \/ \E t \in Threads : GenerateContent(t)
    \/ \E t \in Threads : IncrementRequestCount(t)
    \/ Tick

SpecGeminiSequential == InitGemini /\ [][NextGeminiSequential]_vars

(***************************************************************************)
(* AppConfig (src/app/config.py): the prompt templates and the recent      *)
(* files of the configuration.                                             *)
(***************************************************************************)

\* add_prompt_template: prompts[name] = prompt.
add_prompt_template(name, prompt) ==
    /\ prompts' = [n \in DOMAIN prompts \cup {name} |->
                       IF n = name THEN prompt ELSE prompts[n]]
    /\ last_op' = Op("add_prompt_template", FALSE)
    /\ UNCHANGED <<batchProcessor, gemini, recent_files, config_file>>

\* remove_prompt_template: del prompts[name] if it is there.
remove_prompt_template(name) ==
    /\ IF name \in DOMAIN prompts
       THEN prompts' = [n \in DOMAIN prompts \ {name} |-> prompts[n]]
       ELSE UNCHANGED prompts
    /\ last_op' = Op("remove_prompt_template", FALSE)
    /\ UNCHANGED <<batchProcessor, gemini, recent_files, config_file>>

\* add_recent_file: the path moves or goes to the front, and the list is cut to
\* max_recent_files entries.
add_recent_file(file_path) ==
    /\ LET removed == SelectSeq(recent_files, LAMBDA f : f # file_path)
           inserted == <<file_path>> \o removed
       IN  recent_files' = IF Len(inserted) > MaxRecentFiles
                           THEN SubSeq(inserted, 1, MaxRecentFiles)
                           ELSE inserted
    /\ last_op' = Op("add_recent_file", FALSE)
    /\ UNCHANGED <<batchProcessor, gemini, prompts, config_file>>

\* clear_recent_files.
clear_recent_files ==
    /\ recent_files' = <<>>
    /\ last_op' = Op("clear_recent_files", FALSE)
    /\ UNCHANGED <<batchProcessor, gemini, prompts, config_file>>

\* restore_defaults: the settings go back to their defaults (none of them is
\* followed here); the recent files are kept, or, with include_prompts, emptied
\* and the prompts set to default_prompts; then save().
restore_defaults(include_prompts) ==
    /\ IF include_prompts
       THEN /\ recent_files' = <<>>
            /\ prompts' = RestoredPrompts
       ELSE UNCHANGED <<recent_files, prompts>>
    /\ config_file' = [saved |-> TRUE, prompts |-> prompts', recent_files |-> recent_files']
    /\ last_op' = Op("restore_defaults", include_prompts)
    /\ UNCHANGED <<batchProcessor, gemini>>

\* A configuration as __init__ leaves it; no run, no call.
InitAppConfig ==
    /\ cells = <<>>
    /\ batch_size = 1
    /\ InitBatchProcessor
    /\ client = TRUE
    /\ max_requests_per_minute = MaxRequests
    /\ now = 0
    /\ InitGeminiIdle
    /\ InitConfig

NextAppConfig ==
    \/ \E name \in EditNames, prompt \in EditTexts : add_prompt_template(name, prompt)
    \/ \E name \in EditNames : remove_prompt_template(name)
    \/ \E file_path \in Files : add_recent_file(file_path)
    \/ clear_recent_files
    \/ \E include_prompts \in BOOLEAN : restore_defaults(include_prompts)

SpecAppConfig == InitAppConfig /\ [][NextAppConfig]_vars

(***************************************************************************)
(* A run of the batch processor whose api_manager is the Gemini manager:   *)
(* the call of run r's cell is made on executor thread r.                  *)
(***************************************************************************)

\* Lines 110, 179-189: the cell goes to the executor and the call begins there.
DispatchCall(r) ==
    /\ pc[r] = "dispatch"
    /\ call_pc[r] = "idle"
    /\ calls' = [calls EXCEPT ![r] = Append(@, CurCell(r))]
    /\ pc' = [pc EXCEPT ![r] = "awaitCell"]
    /\ CallBegins(r)
    /\ UNCHANGED <<inputs, root_alive, config, handle, ready, runLocals, progress, completion,
                   handed, ghosts, request_count, request_start_time,
                   max_requests_per_minute, now, response, sent>>

\* The call has returned in the executor: the loop is told and will wake the task.
ExecutorReturns(r) ==
    /\ pc[r] = "awaitCell"
    /\ call_pc[r] = "idle"
    /\ ~HasWake(r)
    /\ ready' = Append(ready, Entry("wake", r))
    /\ UNCHANGED <<inputs, root_alive, gemini, config, handle, pc, runLocals, progress,
                   completion, handed, calls, ghosts>>

\* Lines 114-135 for the tuple the manager returned.
RecordCellReturned(r, ret) ==
    /\ batch_results' = [batch_results EXCEPT ![r] = Append(@, CellResultOf(CurCell(r), ret))]
    /\ processed' = [processed EXCEPT ![r] = @ + 1]
    /\ success_count' = [success_count EXCEPT ![r] = IF ret.success THEN @ + 1 ELSE @]
    /\ error_count' = [error_count EXCEPT ![r] = IF ret.success THEN @ ELSE @ + 1]
    /\ progress' = [progress EXCEPT ![r] = Append(@,
           [processed |-> processed'[r], success_count |-> success_count'[r],
            error_count |-> error_count'[r], total |-> Len(cells),
            status |-> StatusCell(r)])]
    /\ RootAfter(r, <<"progress">>)
    /\ pc' = [pc EXCEPT ![r] = "sleepCell"]
    /\ UNCHANGED <<taskFuture, completion, batch_idx, cell_idx, all_results>>

\* WakeCellReturned that sends a cell the limiter refused to the executor again.
WakeCellRetriesDenied(r) ==
    /\ LoopFree
    /\ ready # <<>> /\ Head(ready) = Entry("wake", r)
    /\ pc[r] = "awaitCell"
    /\ ready' = Tail(ready)
    /\ IF returned[r] = ReturnFor("Rate limit exceeded")
       THEN /\ pc' = [pc EXCEPT ![r] = "dispatch"]
            /\ UNCHANGED <<taskFuture, runLocals, progress, completion, handed>>
       ELSE RecordCellReturned(r, returned[r])
    /\ UNCHANGED <<inputs, root_alive, gemini, config, processing_cancelled, current_task,
                   calls, ghosts>>

\* The task wakes with the manager's tuple and records the cell.
WakeCellReturned(r) ==
    /\ LoopFree
    /\ ready # <<>> /\ Head(ready) = Entry("wake", r)
    /\ pc[r] = "awaitCell"
    /\ ready' = Tail(ready)
    /\ RecordCellReturned(r, returned[r])
    /\ UNCHANGED <<inputs, root_alive, gemini, config, processing_cancelled, current_task,
                   calls, ghosts>>

\* A processor with a manager of some limit, which has served some requests of
\* its first window before the run, and nothing started.
InitGeminiRun ==
    /\ cells \in CellLists /\ Len(cells) <= MaxLimitedCells
    /\ batch_size \in 1..MaxBatch
    /\ InitBatchProcessor
    /\ client = TRUE
    /\ max_requests_per_minute \in 1..MaxRequests
    /\ now = 0
    /\ request_count \in 0..max_requests_per_minute
    /\ sent = request_count
    /\ request_start_time = now
    /\ call_pc = [t \in Threads |-> "idle"]
    /\ response = [t \in Threads |-> "none"]
    /\ returned = [t \in Threads |-> NoReturn]
    /\ InitConfig

NextGeminiRun ==
    \/ process_batches(1)
    \/ cancel_processing
    \/ \E r \in Runs : RunStart(r)
    \/ \E r \in Runs : BatchCheck(r)
    \/ \E r \in Runs : CellCheck(r)
    \/ \E r \in Runs : DispatchCall(r)
    \/ \E t \in Threads : CheckRateLimit(t)
    \/ \E t \in Threads : GenerateContent(t)
    \/ \E t \in Threads : IncrementRequestCount(t)
    \/ \E r \in Runs : ExecutorReturns(r)
    \/ \E r \in Runs : WakeCellReturned(r)
    \/ \E r \in Runs : TimerFires(r)
    \/ \E r \in Runs : WakeSleepCell(r)
    \/ \E r \in Runs : WakeSleepBatch(r)
    \/ \E r \in Runs : TaskCancel(r)
    \/ \E r \in Runs : Final(r)
    \/ Tick

SpecGeminiRun == InitGeminiRun /\ [][NextGeminiRun]_vars

(***************************************************************************)
(* The claims.                                                             *)
(***************************************************************************)

Last(q) == q[Len(q)]
Done(r) == pc[r] = "done"
Faulted(r) == progress[r] # <<>> /\ Last(progress[r]).status = StatusError

RECURSIVE Flatten(_)
Flatten(bs) == IF bs = <<>> THEN <<>> ELSE Head(bs) \o Flatten(Tail(bs))

\* C1: a run hands its completion callback to the Tk thread exactly once: not
\* before it ends, once when it ends, whichever way it ends (all batches done,
\* flag seen at a check point, CancelledError at an await, exception in the loop).
C1_CompletionExactlyOnce ==
    \A r \in Runs : Len(completion[r]) = IF Done(r) THEN 1 ELSE 0

\* C1's case: a run ended by CancelledError in the middle of its work.
C1_Witness ==
    /\ Done(1) /\ observed[1] = "CancelledError" /\ processed[1] >= 1
    /\ Len(completion[1]) = 1

\* C2: in every progress event processed = success_count + error_count and
\* 0 <= processed <= len(cells), and the counts handed over at completion add up
\* to the processed of the final progress event.
C2_CountersAddUp ==
    \A r \in Runs :
        /\ \A i \in 1..Len(progress[r]) :
               /\ progress[r][i].processed =
                      progress[r][i].success_count + progress[r][i].error_count
               /\ 0 <= progress[r][i].processed
               /\ progress[r][i].processed <= Len(cells)
        /\ \A i \in 1..Len(completion[r]) :
               completion[r][i].success_count + completion[r][i].error_count =
                   Last(progress[r]).processed

\* C2's case: a finished run that counted successes and failures.
C2_Witness ==
    /\ Done(1)
    /\ Last(progress[1]).success_count >= 1
    /\ Last(progress[1]).error_count >= 1

\* C3: the results handed over at completion are a prefix of the cell list, entry
\* k carrying row and col of cell k.
C3_ResultsArePrefix ==
    \A r \in Runs : \A i \in 1..Len(completion[r]) :
        LET res == completion[r][i].results
        IN  /\ Len(res) <= Len(cells)
            /\ \A k \in 1..Len(res) :
                   res[k].row = cells[k].row /\ res[k].col = cells[k].col

\* C4: the results handed over at completion are all the cells counted: their
\* number is success_count + error_count.
C4_CompletionHoldsAllCounted ==
    \A r \in Runs : \A i \in 1..Len(completion[r]) :
        Len(completion[r][i].results) =
            completion[r][i].success_count + completion[r][i].error_count

\* C5: the cells are split into ceil(n / b) consecutive batches in the cells'
\* order, each of b cells but possibly the last; with no cells there is no batch,
\* no call of the processor, and the completion carries no result and counts 0, 0.
C5_BatchesAreCeilChunks ==
    LET n == Len(cells)
        b == batch_size
    IN  /\ Len(batches) = (n + b - 1) \div b
        /\ \A k \in 1..Len(batches) :
               /\ Len(batches[k]) >= 1
               /\ Len(batches[k]) <= b
               /\ k < Len(batches) => Len(batches[k]) = b
        /\ Flatten(batches) = cells
        /\ n = 0 =>
               \A r \in Runs :
                   /\ calls[r] = <<>>
                   /\ Done(r) =>
                          completion[r] = <<[results |-> <<>>, success_count |-> 0,
                                             error_count |-> 0]>>

\* C5's case: 3 cells in batches of 2, both batches run.
C5_Witness ==
    /\ Len(cells) = 3 /\ batch_size = 2
    /\ Done(1)
    /\ \E i \in 1..Len(progress[1]) : progress[1][i].status = <<"Completed batch", 2, 2>>

\* C6: a run that met no cancellation and no exception hands every cell to the
\* processor once, in order, and ends with processed = len(cells), len(cells)
\* results in the cells' order and success_count + error_count = len(cells).
C6_FullRunCoversEveryCell ==
    \A r \in Runs :
        Done(r) /\ observed[r] = "no" /\ ~Faulted(r) =>
            /\ calls[r] = cells
            /\ Last(progress[r]).processed = Len(cells)
            /\ Len(completion[r][1].results) = Len(cells)
            /\ \A k \in 1..Len(cells) : completion[r][1].results[k].row = cells[k].row
            /\ completion[r][1].success_count + completion[r][1].error_count = Len(cells)

\* C6's case: 3 cells, batch size 2, every cell a success: counts 3, 3, 0.
C6_Witness ==
    /\ Len(cells) = 3 /\ batch_size = 2
    /\ Done(1) /\ observed[1] = "no"
    /\ Last(progress[1]).status = StatusCompleted
    /\ Last(progress[1]).processed = 3
    /\ completion[1][1].success_count = 3 /\ completion[1][1].error_count = 0

\* C7: a failed cell does not stop the run: it is recorded with success = false
\* and its error text and counted in error_count, and a run that met no
\* cancellation and no exception still delivers a result for every cell, with
\* error_count the number of failed cells and success_count the rest.
C7_FailedCellDoesNotStopRun ==
    \A r \in Runs :
        /\ \A k \in 1..Len(batch_results[r]) :
               ~batch_results[r][k].success =>
                   batch_results[r][k].error # None /\ batch_results[r][k].result = None
        /\ Done(r) /\ observed[r] = "no" /\ ~Faulted(r) =>
               LET res == completion[r][1].results
                   failed == {k \in 1..Len(res) : ~res[k].success}
               IN  /\ Len(res) = Len(cells)
                   /\ completion[r][1].error_count = Cardinality(failed)
                   /\ completion[r][1].success_count = Len(cells) - Cardinality(failed)
                   /\ \A k \in failed : res[k].error # None /\ res[k].result = None

\* C7's case: of 3 cells only the cell of index 1 fails: error_count 1, success_count 2.
C7_Witness ==
    /\ Len(cells) = 3
    /\ Done(1) /\ observed[1] = "no" /\ ~Faulted(1)
    /\ {k \in 1..3 : ~completion[1][1].results[k].success} = {2}
    /\ completion[1][1].error_count = 1 /\ completion[1][1].success_count = 2

\* C8: a run on whose handle cancel_processing was called before the task's first
\* step ends with one completion event that carries no result, after a final
\* progress event with processed = 0.
C8_CancelBeforeStartDeliversNothing ==
    \A r \in Runs :
        cancelQueued[r] /\ Done(r) =>
            /\ Len(completion[r]) = 1
            /\ completion[r][1].results = <<>>
            /\ Last(progress[r]).processed = 0

\* C8's case: such a run has ended; a later process_batches call had reset the flag
\* before its first check point, so that it went as far as its first await.
C8_Witness ==
    /\ cancelQueued[1] /\ Done(1)
    /\ calls[1] # <<>>

\* C9 as stated: once cancel_processing was called on a run's handle the run
\* hands no further cell to the processor, and the processed it finally reports
\* is the processed of the moment it met the cancellation.
C9_NoCallAfterCancel ==
    /\ [][\A r \in Runs : cancelCalled[r] => calls'[r] = calls[r]]_vars
    /\ [](\A r \in Runs :
              cancelCalled[r] /\ Done(r) /\ observed[r] # "no" =>
                  Last(progress[r]).processed = procAtObs[r])

\* C9 as amended: once cancel_processing was called on a run's handle the run
\* hands at most one further cell to the processor, and none once it has met
\* the cancellation (the flag read as set at a check point, or CancelledError at
\* an await); from then on processed does not change, and it is the processed
\* that the run finally reports.
C9_AtMostOneCallAfterCancel ==
    /\ [](\A r \in Runs :
              cancelCalled[r] =>
                  /\ Len(calls[r]) <= callsAtCancel[r] + 1
                  /\ Done(r) /\ observed[r] # "no" =>
                         Last(progress[r]).processed = procAtObs[r])
    /\ [][\A r \in Runs :
              cancelCalled[r] /\ observed[r] # "no" =>
                  calls'[r] = calls[r] /\ processed'[r] = processed[r]]_vars

\* C9's case: a run cancelled after some cells, which handed one more cell to the
\* processor after the call and then met the cancellation.
C9_Witness ==
    /\ cancelCalled[1] /\ Done(1) /\ observed[1] # "no"
    /\ procAtObs[1] >= 1
    /\ Len(calls[1]) = callsAtCancel[1] + 1

\* C10: a run on whose handle cancel_processing was called, and which met the
\* cancellation, ends with one completion event after a final progress event
\* whose status is "Processing cancelled".
C10_CancelledRunReportsCancelled ==
    \A r \in Runs :
        cancelCalled[r] /\ Done(r) /\ observed[r] # "no" =>
            /\ Len(completion[r]) = 1
            /\ Last(progress[r]).status = StatusCancelled

\* C11 (as stated; the code differs): an exception in the batch loop ends the run at
\* once: the final progress event is the "Error: ..." one, no further cell goes to
\* the processor, and the one completion event carries the counts and every result
\* accumulated so far, as many results as cells were counted.
C11_FaultDeliversAccumulated ==
    /\ [](\A r \in Runs :
              Faulted(r) =>
                  /\ Done(r)
                  /\ Len(completion[r]) = 1
                  /\ completion[r][1].success_count = success_count[r]
                  /\ completion[r][1].error_count = error_count[r]
                  /\ Len(completion[r][1].results) = Last(progress[r]).processed)
    /\ [][\A r \in Runs : Faulted(r) => calls'[r] = calls[r]]_vars

\* C12 (as stated; the code differs): nothing raised while a single cell is
\* processed ends the run: no run reports "Error: ...", and a run that met no
\* cancellation has a result for every cell it handed to the processor.
C12_NoExceptionEscapesCell ==
    \A r \in Runs :
        /\ ~Faulted(r)
        /\ Done(r) /\ observed[r] = "no" =>
               /\ calls[r] = cells
               /\ Len(completion[r][1].results) = Len(cells)

ExactlyOneSet(cr) ==
    /\ cr.success => cr.result # None /\ cr.error = None
    /\ ~cr.success => cr.error # None /\ cr.result = None

\* C13: whatever process_single_cell returns, and whatever line 194 returns in
\* its place, the CellResult built from it has a result and no error when success
\* is true, and an error and no result when success is false.
C13_ExactlyOneOfResultError ==
    \A t \in Threads :
        returned[t] # NoReturn => ExactlyOneSet(CellResultOf(Cell(1), returned[t]))

\* C13's case: one call returned a text, another ended in the fallback of line 194.
C13_Witness ==
    \E t, u \in Threads :
        /\ returned[t] = ReturnFor("text")
        /\ returned[u] = Fallback

Active(r) == pc[r] \in Awaits \cup Running

\* C14 (as stated; the code differs): at most one run of the instance is between
\* its first step and its end at any time.
C14_AtMostOneRunActive ==
    Cardinality({r \in Runs : Active(r)}) <= 1

\* C15 (as stated; the code differs): when a run hands an event to root.after,
\* every run started before it has handed over its completion event and no run
\* started after it has handed over anything.
C15_RunsDoNotInterleaveEvents ==
    [][\A r \in Runs :
           handed'[r] # handed[r] =>
               \A q \in Runs :
                   /\ q < r => completion[q] # <<>>
                   /\ q > r => handed[q] = <<>>]_vars

IsPrefix(p, q) == Len(p) <= Len(q) /\ SubSeq(q, 1, Len(p)) = p
CountOf(q, kind) == Len(SelectSeq(q, LAMBDA k : k = kind))

\* C16: a run hands its events to root.after in the order it generates them: the
\* progress events only ever grow at the end, their processed never decreases, and
\* the completion event is the last root.after call of the run, after which the
\* run hands over nothing.
C16_EventsInOrderCompletionLast ==
    /\ [](\A r \in Runs :
              /\ CountOf(handed[r], "progress") = Len(progress[r])
              /\ CountOf(handed[r], "completion") = Len(completion[r])
              /\ \A i \in 1..Len(handed[r]) :
                     handed[r][i] = "completion" => i = Len(handed[r])
              /\ \A i, j \in 1..Len(progress[r]) :
                     i < j => progress[r][i].processed <= progress[r][j].processed)
    /\ [][\A r \in Runs :
              /\ IsPrefix(progress[r], progress'[r])
              /\ IsPrefix(handed[r], handed'[r])
              /\ completion[r] # <<>> => handed'[r] = handed[r]]_vars

\* C16's case: a run over two batches has handed over its events, the completion last.
C16_Witness ==
    /\ Done(1) /\ batch_idx[1] = 1
    /\ Len(handed[1]) >= 6
    /\ Last(handed[1]) = "completion"

\* C17: when the rate check runs within 60 s of the window start with
\* max_requests_per_minute requests recorded, the call is refused and the limiter is
\* left as it is; when it runs more than 60 s after the window start, the count
\* becomes 0, the window start becomes now, and the call goes on.
C17_LimiterRefusesUntilRollover ==
    [][\A t \in Threads :
           call_pc[t] = "check" /\ call_pc'[t] # "check" =>
               IF now - request_start_time > Window
               THEN /\ request_count' = 0
                    /\ request_start_time' = now
                    /\ call_pc'[t] = "generate"
               ELSE request_count >= max_requests_per_minute =>
                        /\ call_pc'[t] = "idle"
                        /\ returned'[t] = ReturnFor("Rate limit exceeded")
                        /\ request_count' = request_count
                        /\ request_start_time' = request_start_time]_vars

\* C17's case: a call was refused in a full window, and more than 60 s after the
\* window start the check of another call has reset the limiter and let it through.
C17_Witness ==
    \E t, u \in Threads :
        /\ returned[t] = ReturnFor("Rate limit exceeded")
        /\ call_pc[u] = "generate"
        /\ request_count = 0
        /\ request_start_time = now
        /\ now > Window

\* C18 (as stated; the code differs): request_count never exceeds
\* max_requests_per_minute, however the calls of the executor threads interleave.
C18_CountNeverExceedsLimit ==
    request_count <= max_requests_per_minute

\* C19: a run has at most one cell with the processor at a time: it hands a cell
\* over only when every cell handed over before has been recorded (the last of
\* them being the last result recorded), and a cell that is out and not recorded
\* is the one the run awaits, or the one it ended on.
C19_CellsOneAfterAnother ==
    /\ [](\A r \in Runs :
              /\ Len(calls[r]) - processed[r] \in {0, 1}
              /\ Len(calls[r]) = processed[r] + 1 => pc[r] \in {"awaitCell", "done"})
    /\ [][\A r \in Runs :
              calls'[r] # calls[r] =>
                  /\ processed[r] = Len(calls[r])
                  /\ calls[r] # <<>> =>
                         LET rec == IF batch_results[r] # <<>> THEN batch_results[r]
                                    ELSE all_results[r]
                         IN  rec # <<>> /\ Last(rec).row = Last(calls[r]).row]_vars

\* C19's case: the third cell is with the processor, the first two are recorded.
C19_Witness ==
    /\ pc[1] = "awaitCell"
    /\ Len(calls[1]) = 3
    /\ processed[1] = 2

\* C20 (as stated; the code differs): with the Tk root destroyed a report raises
\* nothing into the run: no task ends with an exception that left the coroutine.
C20_TeardownIsNoOp ==
    \A r \in Runs : pc[r] # "failed"

\* C21: every run that process_batches started eventually hands over its
\* completion event, given that the loop keeps running, every call in the
\* executor returns and every sleep comes due; whatever the cells return and
\* whenever cancel_processing or a further process_batches is called.
C21_EveryRunCompletes ==
    \A r \in Runs : (pc[r] \in InFlight) ~> (Done(r) /\ Len(completion[r]) = 1)

\* C21's case: a run that had a failed cell and a cancel_processing call has
\* ended and handed over its completion.
C21_Witness ==
    /\ Done(1) /\ cancelCalled[1] /\ error_count[1] >= 1
    /\ Len(completion[1]) = 1

\* C22: when a cell of batch i of n goes to the processor, the run's latest
\* progress event is the "Processing batch i of n..." event if the cell is the
\* batch's first, and the event of the cell before it ("... i of n: k/m cells",
\* k the 1-based position) if not; and when a cell is counted, exactly one event
\* is added, naming batch i and the cell's 1-based position in the batch.
C22_BatchStartThenCellEvents ==
    [][\A r \in Runs :
           /\ calls'[r] # calls[r] =>
                  /\ progress[r] # <<>>
                  /\ Last(progress[r]).status =
                         IF cell_idx[r] = 0
                         THEN <<"Processing batch", batch_idx[r] + 1, Len(batches)>>
                         ELSE <<"Processing batch", batch_idx[r] + 1, Len(batches),
                                cell_idx[r], Len(Batch(r))>>
                  /\ \E i \in 1..Len(progress[r]) :
                         progress[r][i].status =
                             <<"Processing batch", batch_idx[r] + 1, Len(batches)>>
           /\ processed'[r] = processed[r] + 1 =>
                  /\ Len(progress'[r]) = Len(progress[r]) + 1
                  /\ IsPrefix(progress[r], progress'[r])
                  /\ Last(progress'[r]).status =
                         <<"Processing batch", batch_idx[r] + 1, Len(batches),
                           cell_idx[r] + 1, Len(Batch(r))>>]_vars

\* C22's case: three cells in batches of two; the second batch's cell is with the
\* processor after that batch's start event, and the first batch's second cell
\* was followed by its "1 of 2: 2/2" event.
C22_Witness ==
    /\ pc[1] = "awaitCell" /\ batch_idx[1] = 1 /\ Len(calls[1]) = 3
    /\ Len(progress[1]) = 5
    /\ progress[1][3].status = <<"Processing batch", 1, 2, 2, 2>>
    /\ progress[1][5].status = <<"Processing batch", 2, 2>>

\* C23 (as stated; the code differs): when a run has ended, every batch whose
\* "Processing batch i of n..." event it emitted has a later "Completed batch i
\* of n" event, also when the batch was cut short by the flag or by
\* CancelledError at an await.
C23_EveryStartedBatchCompleted ==
    \A r \in Runs :
        Done(r) =>
            \A i \in 1..Len(progress[r]) :
                LET st == progress[r][i].status
                IN  Len(st) = 3 /\ st[1] = "Processing batch" =>
                        \E j \in (i + 1)..Len(progress[r]) :
                            progress[r][j].status = <<"Completed batch", st[2], st[3]>>

\* C24 (as stated; the code differs): once a run has read the flag as set at the
\* check before a cell, no 0.5 s sleep between batches runs to its end: a sleep
\* the run is in can only end with the run (CancelledError).
C24_NoInterBatchSleepOnceCancelled ==
    [][\A r \in Runs :
           observed[r] = "flag" /\ pc[r] = "sleepBatch" /\ pc'[r] # "sleepBatch" =>
               Done(r)']_vars

\* C25: when _check_rate_limit returns False (the window is at most 60 s old and
\* holds max_requests_per_minute requests or more), the call returns
\* (False, None, "Rate limit exceeded...") at once: request_count and
\* request_start_time are as before, no request went to the provider and none
\* was recorded.
C25_DenialHasNoSideEffects ==
    [][\A t \in Threads :
           /\ call_pc[t] = "check" /\ call_pc'[t] # "check"
           /\ now - request_start_time <= Window
           /\ request_count >= max_requests_per_minute
           => /\ request_count' = request_count
              /\ request_start_time' = request_start_time
              /\ sent' = sent
              /\ response' = response
              /\ call_pc'[t] = "idle"
              /\ returned'[t] = [success |-> FALSE, result |-> None,
                                 error |-> "Rate limit exceeded"]]_vars

\* C25's case: a call was refused in a window that is exactly 60 s old; the
\* limiter still holds the window's start and its requests, all of them sent.
C25_Witness ==
    \E t \in Threads :
        /\ call_pc[t] = "idle"
        /\ returned[t] = [success |-> FALSE, result |-> None,
                          error |-> "Rate limit exceeded"]
        /\ request_count = max_requests_per_minute
        /\ sent = request_count
        /\ request_start_time = 0
        /\ now = Window

\* C26 (as stated; the code differs): with one call at a time, the requests that
\* went to the provider since the window was last reset, those that raised
\* included, never number more than max_requests_per_minute.
C26_SentWithinLimit ==
    sent <= max_requests_per_minute

\* C27: when the task wakes with the limiter's refusal for a cell, it records the
\* cell once as a failed result carrying the rate-limit text, counts it in
\* error_count and in processed, and goes on to the sleep before the next cell,
\* sending nothing to the processor again; no cell goes to the processor twice.
C27_DeniedCellFailsRunGoesOn ==
    /\ [][\A r \in Runs :
              /\ pc[r] = "awaitCell" /\ pc'[r] \notin {"awaitCell", "done"}
              /\ returned[r] = [success |-> FALSE, result |-> None,
                                error |-> "Rate limit exceeded"]
              => /\ batch_results'[r] = Append(batch_results[r],
                        [row |-> CurCell(r).row, col |-> CurCell(r).col,
                         success |-> FALSE, result |-> None,
                         error |-> "Rate limit exceeded"])
                 /\ error_count'[r] = error_count[r] + 1
                 /\ success_count'[r] = success_count[r]
                 /\ processed'[r] = processed[r] + 1
                 /\ calls'[r] = calls[r]
                 /\ pc'[r] = "sleepCell"]_vars
    /\ [](\A r \in Runs : \A i, j \in 1..Len(calls[r]) : i < j => calls[r][i] # calls[r][j])

\* C27's case: the window was used up before the run and no time passes: both
\* cells were refused, each recorded once as failed, and the run went from the
\* first to the second and through to its end.
C27_Witness ==
    /\ Done(1) /\ now = 0
    /\ request_count = max_requests_per_minute /\ sent = request_count
    /\ Len(all_results[1]) = 2 /\ Len(calls[1]) = 2
    /\ all_results[1][1].error = "Rate limit exceeded"
    /\ all_results[1][2].error = "Rate limit exceeded"
    /\ error_count[1] = 2 /\ success_count[1] = 0
    /\ Last(progress[1]).status = StatusCompleted

\* C28 (as stated; the code differs): a run that was in flight when
\* cancel_processing was called, whether or not self.current_task still names
\* it, hands at most the cell it was about to start to the processor after the
\* call, and no other, even if process_batches is called again before the run
\* reaches its next check.
C28_CancellationNeverLost ==
    \A r \in Runs :
        cancelInFlight[r] => Len(calls[r]) <= callsAtAnyCancel[r] + 1

\* C29 (as stated; the code differs): a run that has ended has as its final
\* status one of "Processing completed", "Processing cancelled" and "Error: ...",
\* the first only if every submitted cell was processed; and a run that has
\* ended hands no further cell to the processor and emits nothing more.
C29_OneTerminalOutcome ==
    /\ [](\A r \in Runs :
              Done(r) =>
                  /\ progress[r] # <<>>
                  /\ Last(progress[r]).status \in
                         {StatusCompleted, StatusCancelled, StatusError}
                  /\ Last(progress[r]).status = StatusCompleted =>
                         Last(progress[r]).processed = Len(cells))
    /\ [][\A r \in Runs :
              Done(r) => /\ calls'[r] = calls[r]
                         /\ progress'[r] = progress[r]
                         /\ pc'[r] = pc[r]]_vars

\* C30 (as stated; the code differs): after restore_defaults(include_prompts=True)
\* the prompts are those of a freshly initialised default configuration, same
\* names and same texts, whatever was added, changed or removed before; and
\* restore_defaults(include_prompts=False) leaves the prompts and the recent
\* files as they were.
C30_RestoreDefaultsRestoresPrompts ==
    /\ [](last_op = [op |-> "restore_defaults", include_prompts |-> TRUE] =>
              prompts = InitPrompts)
    /\ [][last_op' = [op |-> "restore_defaults", include_prompts |-> FALSE] =>
              prompts' = prompts /\ recent_files' = recent_files]_vars

====
